---- MODULE Spec2Model ----
(***************************************************************************)
(* The layered cache of lib/db (src/lib/users.ts lines 121-580): a SQLite  *)
(* store (tables users and wallet_data) fronted by the process-wide maps   *)
(* userCache, walletCache and the set avatarCache.                         *)
(*                                                                         *)
(* Strings are sequences of one-character strings, so that toLowerCase and *)
(* length are computed, not assumed.  A JavaScript value is a record       *)
(* [t, s, n]: its typeof, its characters when a string, its value when a   *)
(* number.  Every handler is an operator from the module state (a record   *)
(* of the store and the accelerator) and the clock to its outcome          *)
(* [st, ret, threw]: the state it leaves, what it returns (<<>> for null   *)
(* or void, <<v>> for a value, the list for getUsers) and whether it       *)
(* threw.  The actions apply the handlers; the properties speak about the  *)
(* outcome of a handler called in a reachable state.                       *)
(*                                                                         *)
(* dbInstance is "null" or a handle: "open" once getDb has run to its end, *)
(* "partial" when getDb assigned the handle and then threw.  The code only *)
(* tests the handle against null.  schema tells whether the store file     *)
(* carries the tables users and wallet_data.  openHandles counts the       *)
(* Database objects that were constructed and not yet closed.              *)
(*                                                                         *)
(* route is the state of the avatar route (src/app/api/avatar/[cid]/       *)
(* route.ts): its flag shouldMockIpfs, its own image cache avatarCache,    *)
(* its map inFlight, heliaInstance and verifiedFetchInstance (0 for null,  *)
(* else the number of the fetch whose call created the instance), the      *)
(* counts of the calls of createHeliaHTTP and createVerifiedFetch, the     *)
(* promises of the IPFS fetches with the await each fetch stands at and    *)
(* the instance it fetches with, and the requests, each with its position  *)
(* in GET.  walletRoute is the state of the wallet route                   *)
(* (src/app/api/wallet/[address]/route.ts): whether ANKR_API_KEY is set,   *)
(* and its requests.                                                       *)
(***************************************************************************)
EXTENDS Integers, Sequences, FiniteSets, TLC

VARIABLES now, ticks, dbInstance, schema, openHandles, users, wallet_data,
          userCache, walletCache, avatarCache, route, walletRoute

vars == <<now, ticks, dbInstance, schema, openHandles, users, wallet_data,
          userCache, walletCache, avatarCache, route, walletRoute>>

\* ---------------------------------------------------------------- bounds
MaxTicks == 2
MaxBatchLen == 2
MaxRequests == 2

\* ------------------------------------------------------ program constants
TTL_MS == 24 * 60 * 60 * 1000
MaxAddressLen == 100
MaxUsernameLen == 200
MaxAvatarCidLen == 200

\* ---------------------------------------------------------------- strings
LowerChar(c) ==
  CASE c = "A" -> "a"
    [] c = "B" -> "b"
    [] c = "C" -> "c"
    [] c = "D" -> "d"
    [] OTHER -> c

ToLowerIdentity(s) == s

\* String.prototype.toLowerCase, and SQL LOWER(), on the characters used.
ToLower(s) == [i \in 1..Len(s) |-> LowerChar(s[i])]

\* ------------------------------------------------------ JavaScript values
Str(s) == [t |-> "string", s |-> s, n |-> 0]
Num(n) == [t |-> "number", s |-> <<>>, n |-> n]
Undefined == [t |-> "undefined", s |-> <<>>, n |-> 0]

ADDR_ab == <<"a", "b">>
ADDR_AB == <<"A", "B">>
ADDR_cd == <<"c", "d">>
Addresses == {ADDR_ab, ADDR_AB, ADDR_cd}

CID_1 == <<"Q", "1">>
CID_2 == <<"Q", "2">>
Cids == {CID_1, CID_2}

Candidate(a, r, u, c, g, x, l) ==
  [address |-> a, rank |-> r, username |-> u, avatarCid |-> c,
   gmStreak |-> g, xp |-> x, level |-> l]

\* Records the ranking feed can hand to saveUsers.  Valid: two for the same
\* address (rank and avatar differ) and one for its upper-case spelling, a
\* different primary key with the same lower-case form.  Invalid: a negative
\* rank (every field present) and a record with only address and rank.
ValidAb1 == Candidate(Str(ADDR_ab), Num(1), Str(<<"u">>), Str(CID_1), Num(0), Num(5), Num(1))
ValidAb2 == Candidate(Str(ADDR_ab), Num(2), Str(<<"v">>), Str(CID_2), Num(1), Num(6), Num(1))
ValidAB == Candidate(Str(ADDR_AB), Num(1), Str(<<"w">>), Str(CID_2), Num(0), Num(0), Num(0))
NegativeRank == Candidate(Str(ADDR_AB), Num(-1), Str(<<"y">>), Str(CID_1), Num(0), Num(0), Num(0))
MissingUsername == Candidate(Str(ADDR_AB), Num(2), Undefined, Undefined, Undefined, Undefined, Undefined)

Candidates == {ValidAb1, ValidAb2, ValidAB, NegativeRank, MissingUsername}

\* the batches of at most MaxBatchLen different records
Batches ==
  {b \in UNION {[1..n -> Candidates] : n \in 0..MaxBatchLen} :
     \A i, j \in 1..Len(b) : i # j => b[i] # b[j]}

\* -------------------------------------------------------- Record Validator
isValidUserData(u) ==
  /\ u.address.t = "string"
  /\ Len(u.address.s) > 0
  /\ Len(u.address.s) <= MaxAddressLen
  /\ u.rank.t = "number"
  /\ u.rank.n >= 0
  /\ u.username.t = "string"
  /\ Len(u.username.s) > 0
  /\ Len(u.username.s) <= MaxUsernameLen
  /\ u.avatarCid.t = "string"
  /\ Len(u.avatarCid.s) > 0
  /\ Len(u.avatarCid.s) <= MaxAvatarCidLen
  /\ u.gmStreak.t = "number"
  /\ u.gmStreak.n >= 0
  /\ u.xp.t = "number"
  /\ u.xp.n >= 0
  /\ u.level.t = "number"
  /\ u.level.n >= 0

\* users.filter(isValidUserData)
FilterValid(batch) == SelectSeq(batch, isValidUserData)

\* ------------------------------------------------------------ store rows
\* stmt.run binds numbers and strings; binding undefined throws a TypeError.
CanBind(u) ==
  \A v \in {u.address, u.rank, u.username, u.avatarCid, u.gmStreak, u.xp, u.level} :
    v.t \in {"string", "number"}

\* the users row that stmt.run(user.address, ..., expiresAt) writes
RowOf(u, e) ==
  [address |-> u.address.s, rank |-> u.rank.n, username |-> u.username.s,
   avatar_cid |-> u.avatarCid.s, gm_streak |-> u.gmStreak.n, xp |-> u.xp.n,
   level |-> u.level.n, expires_at |-> e]

\* the UserData object built from a users row
UserDataOf(r) ==
  [address |-> r.address, rank |-> r.rank, username |-> r.username,
   avatarCid |-> r.avatar_cid, gmStreak |-> r.gm_streak, xp |-> r.xp,
   level |-> r.level]

\* the row seen as a candidate again, for the validator
AsCandidate(r) ==
  Candidate(Str(r.address), Num(r.rank), Str(r.username), Str(r.avatar_cid),
            Num(r.gm_streak), Num(r.xp), Num(r.level))

InsertKeepOld(tbl, row) ==
  IF \E r \in tbl : r.address = row.address THEN tbl ELSE tbl \cup {row}

\* INSERT OR REPLACE INTO users: address is the (case-sensitive) primary key
InsertOrReplace(tbl, row) ==
  {r \in tbl : r.address # row.address} \cup {row}

\* ------------------------------------------------------------ accelerator
\* A Map is a set of entries with distinct keys.
CacheGet(cache, k) == {x \in cache : x.key = k}

CacheSet(cache, k, value, e) ==
  {x \in cache : x.key # k} \cup {[key |-> k, value |-> value, expiresAt |-> e]}

CacheDelete(cache, k) == {x \in cache : x.key # k}

NotExpiredInclusive(e, t) == e >= t

\* the test `expiresAt > now` / `expires_at > ?` every read makes
NotExpired(e, t) == e > t

\* -------------------------------------------------------------- lifecycle
State ==
  [dbInstance |-> dbInstance, schema |-> schema, openHandles |-> openHandles,
   users |-> users, wallet_data |-> wallet_data,
   userCache |-> userCache, walletCache |-> walletCache,
   avatarCache |-> avatarCache]

cleanEntriesEarly(st, t) ==
  [st EXCEPT !.users = {r \in st.users : ~(r.expires_at < t + TTL_MS)},
             !.wallet_data = {r \in st.wallet_data : ~(r.expires_at < t + TTL_MS)},
             !.userCache = {},
             !.walletCache = {},
             !.avatarCache = {}]

cleanAllEntries(st, t) ==
  [st EXCEPT !.users = {}, !.wallet_data = {}, !.userCache = {},
             !.walletCache = {}, !.avatarCache = {}]

\* cleanExpiredEntries: DELETE ... WHERE expires_at < now, then clear the maps
cleanExpiredEntries(st, t) ==
  [st EXCEPT !.users = {r \in st.users : ~(r.expires_at < t)},
             !.wallet_data = {r \in st.wallet_data : ~(r.expires_at < t)},
             !.userCache = {},
             !.walletCache = {},
             !.avatarCache = {}]

getDbSweeping(st, t) ==
  cleanExpiredEntries([st EXCEPT !.dbInstance = "open", !.schema = TRUE,
                                 !.openHandles = IF st.dbInstance = "null" THEN @ + 1 ELSE @], t)

getDbAlwaysOpening(st, t) ==
  IF st.dbInstance = "null"
    THEN cleanExpiredEntries([st EXCEPT !.dbInstance = "open", !.schema = TRUE,
                                        !.openHandles = @ + 1], t)
    ELSE [st EXCEPT !.dbInstance = "open", !.schema = TRUE, !.openHandles = @ + 1]

\* getDb: on a null handle open the store, create the schema and sweep;
\* any other handle is returned as it is
getDb(st, t) ==
  IF st.dbInstance = "null"
    THEN cleanExpiredEntries([st EXCEPT !.dbInstance = "open", !.schema = TRUE,
                                        !.openHandles = @ + 1], t)
    ELSE st

\* db.prepare on a store without the tables throws (no such table)
NoSuchTable(st) == ~st.schema

closeDbKeepingAvatars(st) ==
  [st EXCEPT !.dbInstance = "null", !.userCache = {}, !.walletCache = {},
             !.openHandles = IF st.dbInstance # "null" THEN @ - 1 ELSE @]

\* the state closeDb leaves
closeDbState(st) ==
  [st EXCEPT !.dbInstance = "null",
             !.openHandles = IF st.dbInstance # "null" THEN @ - 1 ELSE @,
             !.userCache = {}, !.walletCache = {}, !.avatarCache = {}]

Outcome(st, ret, threw) == [st |-> st, ret |-> ret, threw |-> threw]

\* closeDb: close a non-null handle, clear the three maps
closeDb(st) == Outcome(closeDbState(st), <<>>, FALSE)

\* the statements of cleanExpiredEntries that ran before statement k threw:
\* each DELETE is committed on its own, the maps are cleared only at the end
SweepUpTo(st, t, k) ==
  [st EXCEPT !.users = IF k > 1 THEN {r \in @ : ~(r.expires_at < t)} ELSE @,
             !.wallet_data = IF k > 2 THEN {r \in @ : ~(r.expires_at < t)} ELSE @]

\* getDb on a null handle when a step of the initialisation throws: the
\* catch block logs and rethrows.  new Database (or mkdirSync) throwing
\* leaves the handle null; the handle is assigned before the pragma, the
\* schema and the sweep, and stays assigned when one of them throws.
getDbThrows(st, t) ==
  IF st.dbInstance # "null" THEN {}
  ELSE {Outcome(st, <<>>, TRUE)}
         \cup {Outcome([st EXCEPT !.dbInstance = "partial", !.openHandles = @ + 1],
                       <<>>, TRUE)}
         \cup {Outcome([st EXCEPT !.dbInstance = "partial", !.openHandles = @ + 1,
                                  !.schema = TRUE], <<>>, TRUE)}
         \cup {Outcome(SweepUpTo([st EXCEPT !.dbInstance = "partial", !.openHandles = @ + 1,
                                            !.schema = TRUE], t, k),
                       <<>>, TRUE) : k \in 1..3}

\* ---------------------------------------------------------------- saveUsers
\* the body of the transaction: for each user, stmt.run, userCache.set,
\* avatarCache.add; a throwing stmt.run stops the loop
RECURSIVE RunTransaction(_, _, _, _)
RunTransaction(batch, i, e, acc) ==
  IF i > Len(batch) THEN acc
  ELSE IF ~CanBind(batch[i]) THEN [acc EXCEPT !.threw = TRUE]
  ELSE RunTransaction(batch, i + 1, e,
         [acc EXCEPT
            !.st.users = InsertOrReplace(@, RowOf(batch[i], e)),
            !.st.userCache = CacheSet(@, ToLower(batch[i].address.s),
                                      UserDataOf(RowOf(batch[i], e)), e),
            !.st.avatarCache = @ \cup {batch[i].avatarCid.s}])

TransactionWithoutRollback(st, batch, e) ==
  RunTransaction(batch, 1, e, Outcome(st, <<>>, FALSE))

\* db.transaction(fn)(batch): commit, or roll the store back and rethrow;
\* the maps are not part of the transaction
Transaction(st, batch, e) ==
  LET r == RunTransaction(batch, 1, e, Outcome(st, <<>>, FALSE))
  IN IF r.threw THEN [r EXCEPT !.st.users = st.users] ELSE r

saveUsersTruncating(st0, batch, t) ==
  LET st == getDb(st0, t)
      expiresAt == t + TTL_MS
      validUsers == FilterValid(batch)
  IN IF Len(validUsers) = 0
       THEN Outcome([st EXCEPT !.users = {}, !.userCache = {}, !.avatarCache = {}], <<>>, FALSE)
       ELSE Transaction(st, batch, expiresAt)

saveUsersSweeping(st0, batch, t) ==
  LET st == cleanExpiredEntries(getDb(st0, t), t + 1)
      expiresAt == t + TTL_MS
      validUsers == FilterValid(batch)
  IN IF Len(validUsers) = 0
       THEN Outcome(st, <<>>, FALSE)
       ELSE IF NoSuchTable(st) THEN Outcome(st, <<>>, TRUE)
       ELSE Transaction(st, batch, expiresAt)

saveUsersReplacingAll(st0, batch, t) ==
  LET st == getDb(st0, t)
      expiresAt == t + TTL_MS
      validUsers == FilterValid(batch)
  IN IF Len(validUsers) = 0
       THEN Outcome(st, <<>>, FALSE)
       ELSE IF NoSuchTable(st) THEN Outcome(st, <<>>, TRUE)
       ELSE Transaction([st EXCEPT !.users = {}], batch, expiresAt)

saveUsers(st0, batch, t) ==
  LET st == getDb(st0, t)
      expiresAt == t + TTL_MS
      validUsers == FilterValid(batch)
  IN IF Len(validUsers) = 0
       THEN Outcome(st, <<>>, FALSE)
       ELSE IF NoSuchTable(st) THEN Outcome(st, <<>>, TRUE)
       ELSE Transaction(st, batch, expiresAt)

\* ----------------------------------------------------------------- getUsers
AnyOrder(rows) ==
  {s \in [1..Cardinality(rows) -> rows] :
     \A i, j \in 1..Cardinality(rows) : i # j => s[i] # s[j]}

\* ORDER BY rank ASC: every listing of the rows with ranks ascending (the
\* order among equal ranks is the engine's choice)
OrderByRank(rows) ==
  {s \in [1..Cardinality(rows) -> rows] :
     /\ \A i, j \in 1..Cardinality(rows) : i # j => s[i] # s[j]
     /\ \A i, j \in 1..Cardinality(rows) : i < j => s[i].rank <= s[j].rank}

\* users.forEach: userCache.set(lower address, ...), avatarCache.add(cid)
RECURSIVE Refill(_, _, _)
Refill(st, rows, i) ==
  IF i > Len(rows) THEN st
  ELSE Refill([st EXCEPT
                 !.userCache = CacheSet(@, ToLower(rows[i].address),
                                        UserDataOf(rows[i]), rows[i].expires_at),
                 !.avatarCache = @ \cup {rows[i].avatar_cid}],
              rows, i + 1)

\* getUsers: the set of its possible outcomes
getUsers(st0, t) ==
  LET st == getDb(st0, t)
      live == {r \in st.users : NotExpired(r.expires_at, t)}
  IN IF NoSuchTable(st) THEN {Outcome(st, <<>>, TRUE)}
     ELSE IF live = {}
       THEN {Outcome(st, <<>>, FALSE)}
       ELSE {Outcome(Refill([st EXCEPT !.userCache = {}, !.avatarCache = {}], s, 1),
                     [i \in 1..Len(s) |-> UserDataOf(s[i])], FALSE) :
               s \in OrderByRank(live)}

\* --------------------------------------------------------- getUserByAddress
\* SELECT * FROM users WHERE LOWER(address) = ? AND expires_at > ?
QueryUserByAddress(tbl, normalizedAddress, t) ==
  {r \in tbl : ToLower(r.address) = normalizedAddress /\ NotExpired(r.expires_at, t)}

\* the set of its possible outcomes (.get returns one matching row)
getUserByAddress(st0, address, t) ==
  LET normalizedAddress == ToLower(address)
      cached == {x \in CacheGet(st0.userCache, normalizedAddress) :
                   NotExpired(x.expiresAt, t)}
  IN IF cached # {}
       THEN {Outcome(st0, <<x.value>>, FALSE) : x \in cached}
       ELSE LET st == getDb(st0, t)
                found == QueryUserByAddress(st.users, normalizedAddress, t)
            IN IF NoSuchTable(st) THEN {Outcome(st, <<>>, TRUE)}
               ELSE IF found = {}
                 THEN {Outcome(st, <<>>, FALSE)}
                 ELSE {Outcome([st EXCEPT !.userCache =
                                   CacheSet(@, normalizedAddress, UserDataOf(r), r.expires_at)],
                               <<UserDataOf(r)>>, FALSE) : r \in found}

\* --------------------------------------------------------- isAddressAllowed
isAddressAllowed(st0, address, t) ==
  LET normalizedAddress == ToLower(address)
      cached == {x \in CacheGet(st0.userCache, normalizedAddress) :
                   NotExpired(x.expiresAt, t)}
  IN IF cached # {}
       THEN Outcome(st0, <<TRUE>>, FALSE)
       ELSE LET st == getDb(st0, t)
            IN IF NoSuchTable(st) THEN Outcome(st, <<>>, TRUE)
               ELSE Outcome(st, <<QueryUserByAddress(st.users, normalizedAddress, t) # {}>>, FALSE)

\* ---------------------------------------------------------- isAvatarAllowed
isAvatarAllowed(st0, cid, t) ==
  IF cid \in st0.avatarCache
    THEN Outcome(st0, <<TRUE>>, FALSE)
    ELSE LET st == getDb(st0, t)
             isValid == \E r \in st.users :
                          r.avatar_cid = cid /\ NotExpired(r.expires_at, t)
         IN IF NoSuchTable(st) THEN Outcome(st, <<>>, TRUE)
            ELSE Outcome(IF isValid THEN [st EXCEPT !.avatarCache = @ \cup {cid}] ELSE st,
                         <<isValid>>, FALSE)

\* ------------------------------------------------------------ wallet payloads
JsonObject(k) == [t |-> "object", v |-> k]
JsonNull == [t |-> "null", v |-> 0]
\* what the wallet-data provider hands to saveWalletData: objects
Payloads == {JsonObject(1), JsonObject(2)}

DigitOf(k) == IF k = 1 THEN "1" ELSE "2"
ValueOfDigit(c) == IF c = "1" THEN 1 ELSE 2

\* JSON.stringify: text for an object, "null" for NaN and null, undefined
\* (no text) for undefined
JSONstringify(p) ==
  CASE p.t = "object" -> Str(<<"{", DigitOf(p.v), "}">>)
    [] p.t \in {"null", "NaN"} -> Str(<<"n", "u", "l", "l">>)
    [] OTHER -> Undefined

\* JSON.parse: [ok, value]; ok = FALSE is a SyntaxError
JSONparse(text) ==
  IF text = <<"n", "u", "l", "l">> THEN [ok |-> TRUE, value |-> JsonNull]
  ELSE IF Len(text) = 3 /\ text[1] = "{" /\ text[2] \in {"1", "2"} /\ text[3] = "}"
    THEN [ok |-> TRUE, value |-> JsonObject(ValueOfDigit(text[2]))]
  ELSE [ok |-> FALSE, value |-> JsonNull]

\* a payload no JSON.parse accepts
CorruptText == <<"{", "1">>

\* what a caller receiving value v sees: null is <<>>
Returned(v) == IF v.t = "null" THEN <<>> ELSE <<v>>

WalletRow(a, text, e) == [address |-> a, data |-> text, expires_at |-> e]

InsertWalletRow(tbl, row) == tbl \cup {row}

\* INSERT OR REPLACE INTO wallet_data: address is the primary key
UpsertWallet(tbl, row) == {r \in tbl : r.address # row.address} \cup {row}

\* ------------------------------------------------------------ saveWalletData
saveWalletData(st0, address, data, t) ==
  LET st == getDb(st0, t)
      expiresAt == t + TTL_MS
      jsonData == JSONstringify(data)
  IN IF NoSuchTable(st) \/ jsonData.t # "string"
       THEN Outcome(st, <<>>, TRUE)
       ELSE Outcome([st EXCEPT
                       !.wallet_data = UpsertWallet(@, WalletRow(ToLower(address), jsonData.s, expiresAt)),
                       !.walletCache = CacheSet(@, ToLower(address),
                                                [address |-> address, data |-> jsonData.s],
                                                expiresAt)],
                    <<>>, FALSE)

\* ------------------------------------------------------------- getWalletData
DeleteNothing(tbl, a) == tbl

\* DELETE FROM wallet_data WHERE address = ?
DeleteWallet(tbl, a) == {r \in tbl : r.address # a}

\* the store part of getWalletData (lines 537-565)
getWalletDataFromDb(st1, normalizedAddress, t) ==
  LET st == getDb(st1, t)
      result == {r \in st.wallet_data :
                   r.address = normalizedAddress /\ NotExpired(r.expires_at, t)}
  IN IF NoSuchTable(st) THEN Outcome(st, <<>>, TRUE)
     ELSE IF result = {}
       THEN Outcome(st, <<>>, FALSE)
       ELSE LET r == CHOOSE r \in result : TRUE
                parsed == JSONparse(r.data)
            IN IF parsed.ok
                 THEN Outcome([st EXCEPT !.walletCache =
                                  CacheSet(@, normalizedAddress,
                                           [address |-> normalizedAddress, data |-> r.data],
                                           r.expires_at)],
                              Returned(parsed.value), FALSE)
                 ELSE Outcome([st EXCEPT !.wallet_data = DeleteWallet(@, normalizedAddress)],
                              <<>>, FALSE)

getWalletData(st0, address, t) ==
  LET normalizedAddress == ToLower(address)
      cached == {x \in CacheGet(st0.walletCache, normalizedAddress) :
                   NotExpired(x.expiresAt, t)}
  IN IF cached = {}
       THEN getWalletDataFromDb(st0, normalizedAddress, t)
       ELSE LET x == CHOOSE x \in cached : TRUE
                parsed == JSONparse(x.value.data)
            IN IF parsed.ok
                 THEN Outcome(st0, Returned(parsed.value), FALSE)
                 ELSE getWalletDataFromDb(
                        [st0 EXCEPT !.walletCache = CacheDelete(@, normalizedAddress)],
                        normalizedAddress, t)

\* ------------------------------------------------------------ avatar route
CACHE_TTL_MS == 24 * 60 * 60 * 1000

Requests == 1..MaxRequests

\* the cid of a request path; the empty one fails the test !cid
EmptyCid == <<>>
RouteCids == Cids \cup {EmptyCid}

\* a request that has not arrived yet.  allowed is what isAvatarAllowed
\* returned in this request ("notcalled" before the call), fetchStarted
\* whether this request started an IPFS fetch, at the Date.now() it read,
\* awaiting the promise it waits for (0: none), body what was served.
IdleRequest ==
  [pc |-> "idle", cid |-> EmptyCid, allowed |-> "notcalled", fetchStarted |-> FALSE,
   at |-> 0, awaiting |-> 0, status |-> 0, body |-> "none"]

\* the module state of the route when it is loaded
RouteAtLoad(mock) ==
  [shouldMockIpfs |-> mock, avatarCache |-> {}, inFlight |-> {},
   heliaInstance |-> 0, verifiedFetchInstance |-> 0,
   heliaCalls |-> 0, verifiedFetchCalls |-> 0,
   stage |-> [p \in Requests |-> "none"],
   fetcher |-> [p \in Requests |-> 0],
   promises |-> [p \in Requests |-> "none"],
   requests |-> [q \in Requests |-> IdleRequest]]

\* return new NextResponse(body, {status})
Respond(rt, id, status, body) ==
  [rt EXCEPT !.requests[id].pc = "done", !.requests[id].status = status,
             !.requests[id].body = body]

\* getVerifiedFetch from `return verifiedFetchInstance`: fetchFromIpfs calls
\* the instance it was handed
ReturnVerifiedFetch(rt, p) ==
  [rt EXCEPT !.stage[p] = "verifiedFetch", !.fetcher[p] = rt.verifiedFetchInstance]

\* getVerifiedFetch from its second test: createVerifiedFetch(heliaInstance)
\* is called and awaited when verifiedFetchInstance is null
AfterHelia(rt, p) ==
  IF rt.verifiedFetchInstance = 0
    THEN [rt EXCEPT !.verifiedFetchCalls = @ + 1, !.stage[p] = "createVerifiedFetch"]
    ELSE ReturnVerifiedFetch(rt, p)

\* getVerifiedFetch, called by the fetch behind promise p, up to its first
\* await: createHeliaHTTP() is called and awaited when heliaInstance is null
getVerifiedFetch(rt, p) ==
  IF rt.heliaInstance = 0
    THEN [rt EXCEPT !.heliaCalls = @ + 1, !.stage[p] = "createHeliaHTTP"]
    ELSE AfterHelia(rt, p)

\* getAvatarFromIpfs up to its first await: a live cache entry is returned,
\* an in-flight fetch for the cid is joined, otherwise a fetch is started
\* and registered in inFlight
getAvatarFromIpfs(rt, id, t) ==
  LET cid == rt.requests[id].cid
      cached == {x \in CacheGet(rt.avatarCache, cid) : NotExpired(x.expiresAt, t)}
      inFlightPromise == {x \in rt.inFlight : x.key = cid}
  IN IF cached # {} THEN Respond(rt, id, 200, "cache")
     ELSE IF inFlightPromise # {}
       THEN [rt EXCEPT !.requests[id].pc = "joined",
                       !.requests[id].at = t,
                       !.requests[id].awaiting = (CHOOSE x \in inFlightPromise : TRUE).promise]
       ELSE [getVerifiedFetch(rt, id) EXCEPT
                       !.requests[id].pc = "fetching",
                       !.requests[id].at = t,
                       !.requests[id].fetchStarted = TRUE,
                       !.requests[id].awaiting = id,
                       !.promises[id] = "pending",
                       !.inFlight = @ \cup {[key |-> cid, promise |-> id]}]

AlwaysServe(allowed) == FALSE

\* if (!isAvatarAllowed(cid))
Denied(allowed) == ~allowed

\* GET after `await params`, with the outcome o of isAvatarAllowed(cid), up
\* to its return or its first await
GETAfterCheck(rt0, id, o, t) ==
  LET rt == [rt0 EXCEPT !.requests[id].allowed =
                          IF o.threw THEN "threw"
                          ELSE IF o.ret[1] THEN "true" ELSE "false"]
      cid == rt.requests[id].cid
      cached == {x \in CacheGet(rt.avatarCache, cid) : NotExpired(x.expiresAt, t)}
  IN IF o.threw THEN Respond(rt, id, 500, "none")
     ELSE IF Denied(o.ret[1]) THEN Respond(rt, id, 403, "json")
     ELSE IF rt.shouldMockIpfs THEN Respond(rt, id, 200, "mock")
     ELSE IF cached # {} THEN Respond(rt, id, 200, "cache")
     ELSE getAvatarFromIpfs(rt, id, t)

OwnerResumesKeepingFailed(rt, id) ==
  LET q == rt.requests[id]
  IN IF rt.promises[q.awaiting] = "resolved"
       THEN [Respond([rt EXCEPT !.avatarCache =
                        CacheSet(@, q.cid, "image", q.at + CACHE_TTL_MS)],
                     id, 200, "ipfs")
               EXCEPT !.inFlight = {x \in @ : x.key # q.cid}]
       ELSE Respond(rt, id, 500, "json")

\* the owner of a fetch after `await fetchPromise`: avatarCache.set and
\* return on success, the catch block of GET on failure; finally
\* inFlight.delete(cid)
OwnerResumes(rt, id) ==
  LET q == rt.requests[id]
      settled == IF rt.promises[q.awaiting] = "resolved"
                   THEN Respond([rt EXCEPT !.avatarCache =
                                    CacheSet(@, q.cid, "image", q.at + CACHE_TTL_MS)],
                                id, 200, "ipfs")
                   ELSE Respond(rt, id, 500, "json")
  IN [settled EXCEPT !.inFlight = {x \in @ : x.key # q.cid}]

\* a request that joined an in-flight fetch, after `await inFlightPromise`
JoinerResumes(rt, id) ==
  IF rt.promises[rt.requests[id].awaiting] = "resolved"
    THEN Respond(rt, id, 200, "ipfs")
    ELSE Respond(rt, id, 500, "json")

\* ------------------------------------------------------------ wallet route
\* the address of a request path; Malformed fails isAddress
Malformed == <<"x">>
RouteAddresses == {ADDR_AB, ADDR_cd, Malformed}

\* viem's isAddress: the well-formed addresses
isAddress(address) == address \in Addresses

\* a request that has not arrived yet.  allowed is what isAddressAllowed
\* returned in this request and cached what the store's getWalletData
\* returned ("notcalled" before the call), fetched whether the request
\* called the wallet-data provider, saved whether it called saveWalletData.
IdleWalletRequest ==
  [pc |-> "idle", address |-> <<>>, allowed |-> "notcalled", cached |-> "notcalled",
   fetched |-> FALSE, saved |-> FALSE, status |-> 0, xCache |-> "none"]

\* the wallet route when it is loaded; apiKey tells whether ANKR_API_KEY is set
WalletRouteAtLoad(apiKey) ==
  [apiKey |-> apiKey, requests |-> [q \in Requests |-> IdleWalletRequest]]

\* return NextResponse.json(..., {status, headers})
WalletRespond(wr, id, status, xCache) ==
  [wr EXCEPT !.requests[id].pc = "done", !.requests[id].status = status,
             !.requests[id].xCache = xCache]

\* what the route holds after a handler ran on the store
Served(st, wr) == [st |-> st, wr |-> wr]

NeverForbidden(allowed) == FALSE

\* if (!isAddressAllowed(address))
Forbidden(allowed) == ~allowed

\* if (cached): an object is served, null is not
Truthy(ret) == ret # <<>> /\ ret[1].t = "object"

\* GET of the wallet route after `await params`, up to its return or to
\* `await getWalletData(address, apiKey)`; a throw ends in the catch block
WalletGETAfterParams(st, wr, id, t) ==
  LET address == wr.requests[id].address
  IN IF ~wr.apiKey THEN Served(st, WalletRespond(wr, id, 500, "none"))
     ELSE IF Len(address) = 0 \/ ~isAddress(address)
       THEN Served(st, WalletRespond(wr, id, 400, "none"))
     ELSE
       LET o == isAddressAllowed(st, address, t)
           wr1 == [wr EXCEPT !.requests[id].allowed =
                               IF o.threw THEN "threw"
                               ELSE IF o.ret[1] THEN "true" ELSE "false"]
       IN IF o.threw THEN Served(o.st, WalletRespond(wr1, id, 500, "none"))
          ELSE IF Forbidden(o.ret[1]) THEN Served(o.st, WalletRespond(wr1, id, 403, "none"))
          ELSE
            LET c == getWalletData(o.st, address, t)
                wr2 == [wr1 EXCEPT !.requests[id].cached =
                                     IF c.threw THEN "threw"
                                     ELSE IF Truthy(c.ret) THEN "present" ELSE "absent"]
            IN IF c.threw THEN Served(c.st, WalletRespond(wr2, id, 500, "none"))
               ELSE IF Truthy(c.ret) THEN Served(c.st, WalletRespond(wr2, id, 200, "HIT"))
               ELSE Served(c.st, [wr2 EXCEPT !.requests[id].pc = "fetching",
                                             !.requests[id].fetched = TRUE])

\* the provider's answers: a payload, or a rejection
ProviderResults ==
  {[ok |-> TRUE, data |-> p] : p \in Payloads} \cup {[ok |-> FALSE, data |-> JsonNull]}

\* GET of the wallet route after `await getWalletData(address, apiKey)`:
\* saveWalletData and the MISS response, or the catch block
WalletGETAfterFetch(st, wr, id, result, t) ==
  IF ~result.ok THEN Served(st, WalletRespond(wr, id, 500, "none"))
  ELSE LET s == saveWalletData(st, wr.requests[id].address, result.data, t)
           wr1 == [wr EXCEPT !.requests[id].saved = TRUE]
       IN IF s.threw THEN Served(s.st, WalletRespond(wr1, id, 500, "none"))
          ELSE Served(s.st, WalletRespond(wr1, id, 200, "MISS"))

\* ------------------------------------------------------------------ actions
\* the state a handler leaves becomes the module state
Call(o) ==
  /\ dbInstance' = o.st.dbInstance
  /\ schema' = o.st.schema
  /\ openHandles' = o.st.openHandles
  /\ users' = o.st.users
  /\ wallet_data' = o.st.wallet_data
  /\ userCache' = o.st.userCache
  /\ walletCache' = o.st.walletCache
  /\ avatarCache' = o.st.avatarCache

\* lib/db when it is loaded
StoreAtLoad ==
  /\ now = 0
  /\ ticks = 0
  /\ dbInstance = "null"
  /\ schema = FALSE
  /\ openHandles = 0
  /\ users = {}
  /\ wallet_data = {}
  /\ userCache = {}
  /\ walletCache = {}
  /\ avatarCache = {}

Init ==
  /\ StoreAtLoad
  /\ route = RouteAtLoad(FALSE)
  /\ walletRoute = WalletRouteAtLoad(TRUE)

\* the route is loaded with or without MOCK_IPFS
RouteInit ==
  /\ StoreAtLoad
  /\ \E mock \in BOOLEAN : route = RouteAtLoad(mock)
  /\ walletRoute = WalletRouteAtLoad(TRUE)

\* the wallet route is loaded with or without ANKR_API_KEY
WalletRouteInit ==
  /\ StoreAtLoad
  /\ route = RouteAtLoad(FALSE)
  /\ \E apiKey \in BOOLEAN : walletRoute = WalletRouteAtLoad(apiKey)

\* the clock (Date.now) moves on between two calls
Tick ==
  /\ ticks < MaxTicks
  /\ \E d \in {1, TTL_MS} : now' = now + d
  /\ ticks' = ticks + 1
  /\ UNCHANGED <<dbInstance, schema, openHandles, users, wallet_data, userCache, walletCache, avatarCache, route, walletRoute>>

SaveUsersOf(B) ==
  /\ \E batch \in B : Call(saveUsers(State, batch, now))
  /\ UNCHANGED <<now, ticks, route, walletRoute>>

SaveUsers == SaveUsersOf(Batches)

GetUsers ==
  /\ \E o \in getUsers(State, now) : Call(o)
  /\ UNCHANGED <<now, ticks, route, walletRoute>>

GetUserByAddress ==
  /\ \E a \in Addresses : \E o \in getUserByAddress(State, a, now) : Call(o)
  /\ UNCHANGED <<now, ticks, route, walletRoute>>

IsAddressAllowed ==
  /\ \E a \in Addresses : Call(isAddressAllowed(State, a, now))
  /\ UNCHANGED <<now, ticks, route, walletRoute>>

IsAvatarAllowed ==
  /\ \E c \in Cids : Call(isAvatarAllowed(State, c, now))
  /\ UNCHANGED <<now, ticks, route, walletRoute>>

SaveWalletDataOf(A, P) ==
  /\ \E a \in A : \E p \in P : Call(saveWalletData(State, a, p, now))
  /\ UNCHANGED <<now, ticks, route, walletRoute>>

SaveWalletData == SaveWalletDataOf(Addresses, Payloads)

GetWalletDataOf(A) ==
  /\ \E a \in A : Call(getWalletData(State, a, now))
  /\ UNCHANGED <<now, ticks, route, walletRoute>>

GetWalletData == GetWalletDataOf(Addresses)

CloseDb ==
  /\ Call(closeDb(State))
  /\ UNCHANGED <<now, ticks, route, walletRoute>>

\* a facade call on a null handle whose initialisation throws
GetDbFails ==
  /\ \E o \in getDbThrows(State, now) : Call(o)
  /\ UNCHANGED <<now, ticks, route, walletRoute>>

\* a request for /api/avatar/<cid> arrives: GET runs up to `await params`
GET ==
  /\ \E id \in Requests : \E cid \in RouteCids :
       /\ route.requests[id].pc = "idle"
       /\ \A j \in 1..(id - 1) : route.requests[j].pc # "idle"
       /\ route' = [route EXCEPT !.requests[id].pc = "params",
                                 !.requests[id].cid = cid]
  /\ UNCHANGED <<now, ticks, dbInstance, schema, openHandles, users, wallet_data,
                 userCache, walletCache, avatarCache, walletRoute>>

\* GET from `await params` to its return or its next await: 400 without a
\* cid, otherwise isAvatarAllowed(cid) and what follows from it
GETChecks ==
  /\ \E id \in Requests :
       /\ route.requests[id].pc = "params"
       /\ IF route.requests[id].cid = EmptyCid
            THEN /\ route' = Respond(route, id, 400, "json")
                 /\ UNCHANGED <<dbInstance, schema, openHandles, users, wallet_data,
                                userCache, walletCache, avatarCache>>
            ELSE LET o == isAvatarAllowed(State, route.requests[id].cid, now)
                 IN /\ Call(o)
                    /\ route' = GETAfterCheck(route, id, o, now)
  /\ UNCHANGED <<now, ticks, walletRoute>>

\* createHeliaHTTP() of the fetch behind promise p resolves: the instance
\* (named after p) is assigned and getVerifiedFetch goes on
HeliaCreated ==
  /\ \E p \in Requests :
       /\ route.promises[p] = "pending"
       /\ route.stage[p] = "createHeliaHTTP"
       /\ route' = AfterHelia([route EXCEPT !.heliaInstance = p], p)
  /\ UNCHANGED <<now, ticks, dbInstance, schema, openHandles, users, wallet_data,
                 userCache, walletCache, avatarCache, walletRoute>>

\* createVerifiedFetch(heliaInstance) of the fetch behind promise p resolves
VerifiedFetchCreated ==
  /\ \E p \in Requests :
       /\ route.promises[p] = "pending"
       /\ route.stage[p] = "createVerifiedFetch"
       /\ route' = ReturnVerifiedFetch([route EXCEPT !.verifiedFetchInstance = p], p)
  /\ UNCHANGED <<now, ticks, dbInstance, schema, openHandles, users, wallet_data,
                 userCache, walletCache, avatarCache, walletRoute>>

\* the fetch behind a promise succeeds once verifiedFetch was called, or
\* fails (an instance cannot be created, not ok, timeout)
IpfsSettles ==
  /\ \E p \in Requests : \E result \in {"resolved", "rejected"} :
       /\ route.promises[p] = "pending"
       /\ result = "resolved" => route.stage[p] = "verifiedFetch"
       /\ route' = [route EXCEPT !.promises[p] = result, !.stage[p] = "none"]
  /\ UNCHANGED <<now, ticks, dbInstance, schema, openHandles, users, wallet_data,
                 userCache, walletCache, avatarCache, walletRoute>>

GETOwnerResumes ==
  /\ \E id \in Requests :
       /\ route.requests[id].pc = "fetching"
       /\ route.promises[route.requests[id].awaiting] # "pending"
       /\ route' = OwnerResumes(route, id)
  /\ UNCHANGED <<now, ticks, dbInstance, schema, openHandles, users, wallet_data,
                 userCache, walletCache, avatarCache, walletRoute>>

GETJoinerResumes ==
  /\ \E id \in Requests :
       /\ route.requests[id].pc = "joined"
       /\ route.promises[route.requests[id].awaiting] # "pending"
       /\ route' = JoinerResumes(route, id)
  /\ UNCHANGED <<now, ticks, dbInstance, schema, openHandles, users, wallet_data,
                 userCache, walletCache, avatarCache, walletRoute>>

\* a request for /api/wallet/<address> arrives: GET runs up to `await params`
WalletGET ==
  /\ \E id \in Requests : \E address \in RouteAddresses :
       /\ walletRoute.requests[id].pc = "idle"
       /\ \A j \in 1..(id - 1) : walletRoute.requests[j].pc # "idle"
       /\ walletRoute' = [walletRoute EXCEPT !.requests[id].pc = "params",
                                             !.requests[id].address = address]
  /\ UNCHANGED <<now, ticks, dbInstance, schema, openHandles, users, wallet_data,
                 userCache, walletCache, avatarCache, route>>

\* GET of the wallet route from `await params` to its return or its next await
WalletGETChecks ==
  /\ \E id \in Requests :
       /\ walletRoute.requests[id].pc = "params"
       /\ LET r == WalletGETAfterParams(State, walletRoute, id, now)
          IN /\ Call(r)
             /\ walletRoute' = r.wr
  /\ UNCHANGED <<now, ticks, route>>

\* the wallet-data provider answers and GET runs to its return
WalletGETResumes ==
  /\ \E id \in Requests : \E result \in ProviderResults :
       /\ walletRoute.requests[id].pc = "fetching"
       /\ LET r == WalletGETAfterFetch(State, walletRoute, id, result, now)
          IN /\ Call(r)
             /\ walletRoute' = r.wr
  /\ UNCHANGED <<now, ticks, route>>

\* another writer on the same store file leaves an unparsable payload row,
\* already expired or not
InsertCorruptWalletRow ==
  /\ schema
  /\ \E a \in Addresses : \E e \in {now, now + TTL_MS} :
       wallet_data' = UpsertWallet(wallet_data, WalletRow(ToLower(a), CorruptText, e))
  /\ UNCHANGED <<now, ticks, dbInstance, schema, openHandles, users, userCache, walletCache, avatarCache, route, walletRoute>>

\* the ranked-user domain
Next ==
  \/ Tick
  \/ SaveUsers
  \/ GetUsers
  \/ GetUserByAddress
  \/ IsAddressAllowed
  \/ IsAvatarAllowed
  \/ CloseDb

Spec == Init /\ [][Next]_vars

\* the wallet domain
WalletNext ==
  \/ Tick
  \/ SaveWalletData
  \/ GetWalletData
  \/ CloseDb
  \/ InsertCorruptWalletRow

WalletSpec == Init /\ [][WalletNext]_vars

\* both domains side by side, on fewer inputs: batches of one record or of
\* one record followed by the record without username, one wallet (in both
\* spellings) and one payload
ExpiryBatches ==
  {b \in Batches : Len(b) >= 1 /\ isValidUserData(b[1])
                   /\ \A i \in 2..Len(b) : b[i] = MissingUsername}

ExpiryWallets == {ADDR_ab, ADDR_AB}

CacheNext ==
  \/ Tick
  \/ SaveUsersOf(ExpiryBatches)
  \/ GetUsers
  \/ GetUserByAddress
  \/ IsAddressAllowed
  \/ SaveWalletDataOf(ExpiryWallets, {JsonObject(1)})
  \/ GetWalletDataOf(ExpiryWallets)
  \/ CloseDb

CacheSpec == Init /\ [][CacheNext]_vars

\* the ranked-user domain with initialisations that fail
FailNext ==
  \/ Tick
  \/ SaveUsersOf(ExpiryBatches)
  \/ GetUsers
  \/ GetUserByAddress
  \/ IsAddressAllowed
  \/ IsAvatarAllowed
  \/ CloseDb
  \/ GetDbFails

FailSpec == Init /\ [][FailNext]_vars

\* the avatar route over the ranked-user store: one record is saved, time
\* passes, requests arrive and are served
RouteBatches == {<<ValidAb1>>}

RouteNext ==
  \/ Tick
  \/ SaveUsersOf(RouteBatches)
  \/ CloseDb
  \/ GET
  \/ GETChecks
  \/ HeliaCreated
  \/ VerifiedFetchCreated
  \/ IpfsSettles
  \/ GETOwnerResumes
  \/ GETJoinerResumes

RouteSpec == RouteInit /\ [][RouteNext]_vars

\* the avatar route with two users of different avatars
HeliaBatches == {<<ValidAb1, ValidAB>>}

HeliaNext ==
  \/ SaveUsersOf(HeliaBatches)
  \/ GET
  \/ GETChecks
  \/ HeliaCreated
  \/ VerifiedFetchCreated
  \/ IpfsSettles
  \/ GETOwnerResumes
  \/ GETJoinerResumes

HeliaSpec == Init /\ [][HeliaNext]_vars

\* the wallet route over the ranked-user store
WalletRouteNext ==
  \/ Tick
  \/ SaveUsersOf(RouteBatches)
  \/ CloseDb
  \/ WalletGET
  \/ WalletGETChecks
  \/ WalletGETResumes

WalletRouteSpec == WalletRouteInit /\ [][WalletRouteNext]_vars

\* ------------------------------------------------------ words of the claims
\* the rows of a table that a read at time t may show
Live(tbl, t) == {r \in tbl : r.expires_at > t}

\* the pairs of addresses that are equal ignoring letter case
CaseVariants ==
  {<<a, a>> : a \in Addresses} \cup {<<ADDR_ab, ADDR_AB>>, <<ADDR_AB, ADDR_ab>>}

SameAddress(a, b) == <<a, b>> \in CaseVariants

AllValid(batch) == \A i \in 1..Len(batch) : isValidUserData(batch[i])
SomeValid(batch) == \E i \in 1..Len(batch) : isValidUserData(batch[i])
SomeInvalid(batch) == \E i \in 1..Len(batch) : ~isValidUserData(batch[i])

\* the records of a list, as a set
Items(list) == {list[i] : i \in 1..Len(list)}

Ascending(list) ==
  \A i, j \in 1..Len(list) : i < j => list[i].rank <= list[j].rank

\* the record a batch asks to store for candidate u
Record(u) == UserDataOf(RowOf(u, 0))

\* for each address of the batch, the last record of the batch with it
LastPerAddress(batch) ==
  {Record(batch[i]) : i \in {k \in 1..Len(batch) :
     \A j \in (k + 1)..Len(batch) : batch[j].address # batch[k].address}}

BatchAddresses(batch) == {batch[i].address.s : i \in 1..Len(batch)}

\* ----------------------------------------------------------------------- C1
\* C1: once every users row carrying avatar cid c has expired (now is at or
\* past its expiresAt), isAvatarAllowed(c) returns false, whatever calls were
\* made since the save.
C1_ExpiredAvatarRefused ==
  \A c \in Cids :
    ((\E r \in users : r.avatar_cid = c)
       /\ (\A r \in users : r.avatar_cid = c => r.expires_at <= now))
    => isAvatarAllowed(State, c, now).ret = <<FALSE>>

\* ----------------------------------------------------------------------- C2
\* C2: in every reachable state isAvatarAllowed(cid) returns true exactly
\* when the store holds a users row with that avatar_cid and expiresAt > now.
C2_AvatarAllowedIffLiveRow ==
  \A c \in Cids :
    isAvatarAllowed(State, c, now).ret
      = <<\E r \in users : r.avatar_cid = c /\ r.expires_at > now>>

\* ----------------------------------------------------------------------- C3
\* C3: in every reachable state isAddressAllowed(address) returns true
\* exactly when the store holds a users row whose address equals the argument
\* ignoring case and whose expiresAt > now.
C3_AddressAllowedIffLiveRow ==
  \A a \in Addresses :
    isAddressAllowed(State, a, now).ret
      = <<\E r \in users : SameAddress(r.address, a) /\ r.expires_at > now>>

\* ----------------------------------------------------------------------- C4
\* C4: every row of the users store satisfies isValidUserData.
C4_StoredRowsValid == \A r \in users : isValidUserData(AsCandidate(r))

\* ----------------------------------------------------------------------- C5
\* C5: for a batch with at least one valid and at least one invalid
\* candidate, saveUsers returns normally, every valid candidate is stored,
\* and a following getUsers returns exactly the valid candidates.
C5_MixedBatchPersistsValid ==
  \A batch \in Batches :
    (SomeValid(batch) /\ SomeInvalid(batch)) =>
      LET o == saveUsers(State, batch, now)
      IN /\ ~o.threw
         /\ \A g \in getUsers(o.st, now) :
              Items(g.ret) = Items([i \in 1..Len(FilterValid(batch)) |->
                                      Record(FilterValid(batch)[i])])

\* ----------------------------------------------------------------------- C6
\* C6 as stated: saveUsers with no valid candidate returns without error and
\* leaves the users rows, userCache and avatarCache exactly as they were.
C6_NoValidIsNoOp ==
  \A batch \in Batches :
    ~SomeValid(batch) =>
      LET o == saveUsers(State, batch, now)
      IN /\ ~o.threw
         /\ o.st.users = users
         /\ o.st.userCache = userCache
         /\ o.st.avatarCache = avatarCache

\* C6 amended: saveUsers with no valid candidate returns without error,
\* leaves userCache and avatarCache as they were and every users row that has
\* not expired as it was (on an open store, every users row); getUsers
\* answers as before.  Only rows already expired can go, in the start-up
\* sweep of a call that opens the store.
C6_NoValidKeepsLiveRows ==
  \A batch \in Batches :
    ~SomeValid(batch) =>
      LET o == saveUsers(State, batch, now)
      IN /\ ~o.threw
         /\ o.st.userCache = userCache
         /\ o.st.avatarCache = avatarCache
         /\ o.st.users \subseteq users
         /\ \A r \in users \ o.st.users : r.expires_at < now
         /\ dbInstance = "open" => o.st.users = users
         /\ {g.ret : g \in getUsers(o.st, now)} = {g.ret : g \in getUsers(State, now)}

\* the store was closed holding an expired row and a live one: the save of
\* an all-invalid batch opens it, the sweep takes the expired row, the live
\* row stays and getUsers still lists it
C6_Witness ==
  /\ dbInstance = "null"
  /\ \E r \in users : r.expires_at < now
  /\ Live(users, now) # {}
  /\ saveUsers(State, <<MissingUsername, NegativeRank>>, now).st.users = Live(users, now)
  /\ \A g \in getUsers(saveUsers(State, <<MissingUsername, NegativeRank>>, now).st, now) :
       g.ret # <<>>

\* ----------------------------------------------------------------------- C7
\* C7 as stated: for a batch of valid records, saveUsers then getUsers
\* returns exactly the records of the batch, by ascending rank.
C7_SaveThenGetReturnsBatch ==
  \A batch \in Batches :
    (batch # <<>> /\ AllValid(batch)) =>
      LET o == saveUsers(State, batch, now)
      IN /\ ~o.threw
         /\ \A g \in getUsers(o.st, now) :
              /\ Ascending(g.ret)
              /\ Len(g.ret) = Len(batch)
              /\ Items(g.ret) = {Record(batch[i]) : i \in 1..Len(batch)}

\* C7 amended: for a batch of valid records, saveUsers then getUsers
\* returns, by ascending rank and each once, for every address of the batch
\* the last record of the batch with that address, fields unchanged, together
\* with the non-expired rows the store already held for addresses that are
\* not in the batch.
C7_SaveThenGetReturnsBatchAndKept ==
  \A batch \in Batches :
    (batch # <<>> /\ AllValid(batch)) =>
      LET o == saveUsers(State, batch, now)
          kept == {UserDataOf(r) : r \in {x \in Live(users, now) :
                                            x.address \notin BatchAddresses(batch)}}
      IN /\ ~o.threw
         /\ \A g \in getUsers(o.st, now) :
              /\ Ascending(g.ret)
              /\ Len(g.ret) = Cardinality(Items(g.ret))
              /\ Items(g.ret) = LastPerAddress(batch) \cup kept

\* the store holds a live row for ab and one for AB; saving a new record for
\* ab replaces the first and the listing still shows the second
C7_Witness ==
  /\ \E r \in Live(users, now) : r.address = ADDR_AB
  /\ \E r \in Live(users, now) : r.address = ADDR_ab /\ UserDataOf(r) = Record(ValidAb1)
  /\ \E g \in getUsers(saveUsers(State, <<ValidAb2>>, now).st, now) :
       /\ Len(g.ret) = 2
       /\ Record(ValidAb2) \in Items(g.ret)
       /\ Record(ValidAb1) \notin Items(g.ret)

\* ----------------------------------------------------------------------- C9
\* C9: for a saved address a and every spelling a2 of it that differs only in
\* letter case, getUserByAddress(a2) finds a record, the same one as
\* getUserByAddress(a), and its address is spelled as it was stored: the
\* record is a users row when the store answers and the userCache entry when
\* the accelerator answers, never the lower-cased key.
C9_LookupIgnoresCase ==
  \A p \in CaseVariants :
    LET a == p[1]
        a2 == p[2]
    IN /\ {o.ret : o \in getUserByAddress(State, a, now)}
            = {o.ret : o \in getUserByAddress(State, a2, now)}
       /\ \A o1 \in getUserByAddress(State, a, now) :
            /\ \A o2 \in getUserByAddress(o1.st, a2, now) : o2.ret = o1.ret
            /\ (\E r \in Live(users, now) : r.address = a) =>
                 /\ o1.ret # <<>>
                 /\ SameAddress(o1.ret[1].address, a)
                 /\ \/ \E x \in userCache : x.expiresAt > now /\ x.value = o1.ret[1]
                    \/ \E r \in Live(users, now) : UserDataOf(r) = o1.ret[1]

\* the store holds ab and AB, the accelerator is cold (the store was closed
\* and opened again): the lookup of AB is answered by the store
C9_Witness ==
  /\ userCache = {}
  /\ dbInstance = "open"
  /\ \E r \in Live(users, now) : r.address = ADDR_AB
  /\ \E o \in getUserByAddress(State, ADDR_ab, now) :
       o.ret # <<>> /\ o.ret[1].address = ADDR_AB

\* ----------------------------------------------------------------------- C8
\* C8: no read returns an expired entry.  getUsers lists exactly the users
\* rows with now < expiresAt.  getUserByAddress, isAddressAllowed and
\* getWalletData report a key as present whenever the store holds a row for
\* it with now < expiresAt (for a wallet, one whose payload parses), and
\* whenever they report it as present the entry that answers, the store row
\* or the accelerator entry, has now < expiresAt: at now >= expiresAt it is
\* absent.
C8_ReadsNeverShowExpired ==
  /\ \A g \in getUsers(State, now) :
       Items(g.ret) = {UserDataOf(r) : r \in {x \in users : x.expires_at > now}}
  /\ \A a \in Addresses :
       LET liveRows == {r \in users : SameAddress(r.address, a) /\ r.expires_at > now}
           liveCached == {x \in userCache : SameAddress(x.key, a) /\ x.expiresAt > now}
       IN /\ \A o \in getUserByAddress(State, a, now) :
               /\ liveRows # {} => o.ret # <<>>
               /\ o.ret # <<>> =>
                    \/ \E r \in liveRows : UserDataOf(r) = o.ret[1]
                    \/ \E x \in liveCached : x.value = o.ret[1]
          /\ isAddressAllowed(State, a, now).ret
               = <<liveRows # {} \/ liveCached # {}>>
  /\ \A a \in Addresses :
       LET liveRows == {r \in wallet_data : SameAddress(r.address, a)
                                             /\ r.expires_at > now
                                             /\ JSONparse(r.data).ok}
           liveCached == {x \in walletCache : SameAddress(x.key, a)
                                               /\ x.expiresAt > now
                                               /\ JSONparse(x.value.data).ok}
           o == getWalletData(State, a, now)
       IN /\ liveRows # {} => o.ret # <<>>
          /\ o.ret # <<>> =>
               \/ \E r \in liveRows : <<JSONparse(r.data).value>> = o.ret
               \/ \E x \in liveCached : <<JSONparse(x.value.data).value>> = o.ret

\* the clock stands exactly at the expiresAt of a users row and of a wallet
\* payload, both still held by the store and by the accelerator: every read
\* reports them absent
C8_Witness ==
  /\ \E r \in users : r.address = ADDR_ab /\ r.expires_at = now
  /\ \E x \in userCache : x.key = ADDR_ab /\ x.expiresAt = now
  /\ \E r \in wallet_data : r.address = ADDR_ab /\ r.expires_at = now
  /\ \E x \in walletCache : x.key = ADDR_ab /\ x.expiresAt = now
  /\ \A o \in getUserByAddress(State, ADDR_ab, now) : o.ret = <<>>
  /\ \A g \in getUsers(State, now) : g.ret = <<>>
  /\ isAddressAllowed(State, ADDR_ab, now).ret = <<FALSE>>
  /\ getWalletData(State, ADDR_AB, now).ret = <<>>

\* ---------------------------------------------------------------------- C10
\* C10 as stated: when the store holds a wallet_data row for a whose payload
\* cannot be deserialized, getWalletData(a) returns absent without raising,
\* the row is gone from the store afterwards and walletCache has no entry
\* for a.
C10_CorruptRowPurged ==
  \A a \in Addresses :
    (\E r \in wallet_data : SameAddress(r.address, a) /\ ~JSONparse(r.data).ok) =>
      LET o == getWalletData(State, a, now)
      IN /\ o.ret = <<>>
         /\ ~o.threw
         /\ ~\E r \in o.st.wallet_data : SameAddress(r.address, a)
         /\ ~\E x \in o.st.walletCache : SameAddress(x.key, a)

\* C10 amended: when the store holds a non-expired wallet_data row for a
\* whose payload cannot be deserialized and walletCache holds no non-expired
\* entry for a, getWalletData(a) returns absent without raising, the row is
\* gone from the store afterwards and walletCache holds no non-expired entry
\* for a.
C10_LiveCorruptRowPurged ==
  \A a \in Addresses :
    ((\E r \in wallet_data : SameAddress(r.address, a) /\ r.expires_at > now
                              /\ ~JSONparse(r.data).ok)
       /\ ~\E x \in walletCache : SameAddress(x.key, a) /\ x.expiresAt > now) =>
      LET o == getWalletData(State, a, now)
      IN /\ o.ret = <<>>
         /\ ~o.threw
         /\ ~\E r \in o.st.wallet_data : SameAddress(r.address, a)
         /\ ~\E x \in o.st.walletCache : SameAddress(x.key, a) /\ x.expiresAt > now

\* an open store with an unparsable, non-expired row for ab and nothing in
\* the accelerator: the read of AB purges the row
C10_Witness ==
  /\ dbInstance = "open"
  /\ walletCache = {}
  /\ \E r \in wallet_data : r.address = ADDR_ab /\ r.data = CorruptText
                             /\ r.expires_at > now
  /\ getWalletData(State, ADDR_AB, now).ret = <<>>
  /\ getWalletData(State, ADDR_AB, now).st.wallet_data
       = {r \in wallet_data : r.address # ADDR_ab}

\* ---------------------------------------------------------------------- C11
\* the moments between a save at time t and the expiry of what it saved
WhileFresh(t) == {t, t + 1, t + TTL_MS - 1}

\* C11: saveWalletData(a, p) followed by getWalletData(a2), for every a2
\* equal to a ignoring letter case, returns p at every moment before the
\* entry expires, from the accelerator and (after a close) from the store
\* alone, and absent at the expiry; the store then holds one row for the
\* address, and a second saveWalletData under any spelling replaces the
\* payload in that one row.
C11_WalletRoundTrip ==
  \A v \in CaseVariants : \A p \in Payloads :
    LET a == v[1]
        a2 == v[2]
        o == saveWalletData(State, a, p, now)
        closed == closeDbState(o.st)
    IN /\ ~o.threw
       /\ \A t \in WhileFresh(now) :
            /\ getWalletData(o.st, a2, t).ret = <<p>>
            /\ getWalletData(closed, a2, t).ret = <<p>>
       /\ getWalletData(o.st, a2, now + TTL_MS).ret = <<>>
       /\ Cardinality({r \in o.st.wallet_data : SameAddress(r.address, a)}) = 1
       /\ \A p2 \in Payloads :
            LET o2 == saveWalletData(o.st, a2, p2, now)
            IN /\ ~o2.threw
               /\ Cardinality({r \in o2.st.wallet_data : SameAddress(r.address, a)}) = 1
               /\ getWalletData(o2.st, a, now).ret = <<p2>>
               /\ getWalletData(closeDbState(o2.st), a, now).ret = <<p2>>

\* the store and the accelerator hold payload 1 for ab, saved earlier: a
\* save of payload 2 under the spelling AB replaces it, and the read of ab
\* returns payload 2
C11_Witness ==
  /\ now > 0
  /\ \E r \in wallet_data : r.address = ADDR_ab /\ r.expires_at > now
                             /\ JSONparse(r.data).value = JsonObject(1)
  /\ \E x \in walletCache : x.key = ADDR_ab /\ x.expiresAt > now
  /\ getWalletData(State, ADDR_ab, now).ret = <<JsonObject(1)>>
  /\ getWalletData(saveWalletData(State, ADDR_AB, JsonObject(2), now).st, ADDR_ab, now).ret
       = <<JsonObject(2)>>
  /\ Cardinality(saveWalletData(State, ADDR_AB, JsonObject(2), now).st.wallet_data) = 1

\* ---------------------------------------------------------------------- C12
\* C12: on an initialised store a miss is a value, never an error: getUsers
\* returns absent when no users row has expiresAt > now, getUserByAddress
\* and getWalletData return absent for an address with no row with
\* expiresAt > now; none of them throws and none of them changes the store.
C12_MissIsAbsent ==
  dbInstance = "open" =>
    /\ Live(users, now) = {} =>
         \A g \in getUsers(State, now) :
           /\ g.ret = <<>> /\ ~g.threw
           /\ g.st.users = users /\ g.st.wallet_data = wallet_data
    /\ \A a \in Addresses :
         (~\E r \in Live(users, now) : SameAddress(r.address, a)) =>
           \A o \in getUserByAddress(State, a, now) :
             /\ o.ret = <<>> /\ ~o.threw
             /\ o.st.users = users /\ o.st.wallet_data = wallet_data
    /\ \A a \in Addresses :
         (~\E r \in Live(wallet_data, now) : SameAddress(r.address, a)) =>
           LET o == getWalletData(State, a, now)
           IN /\ o.ret = <<>> /\ ~o.threw
              /\ o.st.users = users /\ o.st.wallet_data = wallet_data

\* ---------------------------------------------------------------------- C13
\* an outcome without the value returned
Effect(o) == [st |-> o.st, threw |-> o.threw]

\* what the facade operations can do in state st at time t
FacadeOutcomes(st, t) ==
  {Effect(saveUsers(st, b, t)) : b \in Batches}
    \cup {Effect(o) : o \in getUsers(st, t)}
    \cup UNION {{Effect(o) : o \in getUserByAddress(st, a, t)} : a \in Addresses}
    \cup {Effect(isAddressAllowed(st, a, t)) : a \in Addresses}
    \cup {Effect(isAvatarAllowed(st, c, t)) : c \in Cids}
    \cup {Effect(saveWalletData(st, a, p, t)) : a \in Addresses, p \in Payloads}
    \cup {Effect(getWalletData(st, a, t)) : a \in Addresses}

\* C13: a failed initialisation throws to the caller, and no facade
\* operation proceeds on a handle whose initialisation did not complete: on
\* such a handle every operation either throws or runs the whole
\* initialisation again (and leaves a handle that is open).
C13_NoOperationOnPartialHandle ==
  /\ \A o \in getDbThrows(State, now) : o.threw
  /\ dbInstance = "partial" =>
       \A o \in FacadeOutcomes(State, now) : o.threw \/ o.st.dbInstance = "open"

\* ---------------------------------------------------------------------- C14
\* C14: closeDb leaves the accelerator empty, and after it (the next call
\* opens the store again) every users row and wallet payload that has not
\* expired is still returned: getUsers lists every such row, getUserByAddress
\* finds a row for its address (the row itself when it is the only one with
\* that address ignoring case), isAddressAllowed and isAvatarAllowed say
\* true, and getWalletData returns the payload.
C14_ReopenKeepsLiveRows ==
  LET closed == closeDbState(State)
  IN /\ closed.userCache = {} /\ closed.walletCache = {} /\ closed.avatarCache = {}
     /\ \A g \in getUsers(closed, now) :
          Items(g.ret) = {UserDataOf(r) : r \in Live(users, now)}
     /\ \A r \in Live(users, now) : \A a \in Addresses :
          SameAddress(a, r.address) =>
            /\ \E o \in getUserByAddress(closed, a, now) : o.ret = <<UserDataOf(r)>>
            /\ \A o \in getUserByAddress(closed, a, now) :
                 /\ ~o.threw
                 /\ \E r2 \in Live(users, now) :
                      SameAddress(a, r2.address) /\ o.ret = <<UserDataOf(r2)>>
            /\ isAddressAllowed(closed, a, now).ret = <<TRUE>>
            /\ isAvatarAllowed(closed, r.avatar_cid, now).ret = <<TRUE>>
     /\ \A r \in Live(wallet_data, now) : \A a \in Addresses :
          (SameAddress(a, r.address) /\ JSONparse(r.data).ok) =>
            getWalletData(closed, a, now).ret = <<JSONparse(r.data).value>>

\* a users row and a wallet payload for ab were saved and sit in the
\* accelerator, and the clock has moved on.  After closeDb the maps are
\* empty and the reads of AB are answered from the store.
C14_Witness ==
  /\ dbInstance = "open"
  /\ \E x \in userCache : x.key = ADDR_ab /\ x.expiresAt > now
  /\ \E x \in walletCache : x.key = ADDR_ab /\ x.expiresAt > now
  /\ \E r \in Live(users, now) : ToLower(r.address) = ADDR_ab
  /\ now > 0
  /\ isAddressAllowed(closeDbState(State), ADDR_AB, now).ret = <<TRUE>>
  /\ getWalletData(closeDbState(State), ADDR_AB, now).ret = <<JsonObject(1)>>
  /\ \A g \in getUsers(closeDbState(State), now) : g.ret # <<>>

\* ---------------------------------------------------------------------- C15
\* C15: closeDb, called in any state (never opened, open, partly
\* initialised, already closed), does not throw and leaves the handle null
\* and userCache, walletCache and avatarCache empty; the rows of the store
\* stay; a second closeDb leaves the state of the first.
C15_CloseDbIdempotent ==
  LET once == closeDb(State)
      twice == closeDb(once.st)
  IN /\ ~once.threw /\ ~twice.threw
     /\ once.st.dbInstance = "null"
     /\ once.st.userCache = {} /\ once.st.walletCache = {} /\ once.st.avatarCache = {}
     /\ once.st.users = users /\ once.st.wallet_data = wallet_data
     /\ twice.st = once.st

\* an open store with entries in userCache and avatarCache: closeDb changes
\* the state, a second closeDb does not
C15_Witness ==
  /\ dbInstance = "open"
  /\ userCache # {}
  /\ avatarCache # {}
  /\ users # {}
  /\ closeDb(State).st # State
  /\ closeDb(closeDb(State).st).st = closeDb(State).st

\* ---------------------------------------------------------------------- C16
\* C16 as stated: when a saveUsers batch fails, no row of the batch is in
\* the store afterwards and the rows present before the call are unchanged.
C16_BatchAllOrNothing ==
  \A batch \in Batches :
    LET o == saveUsers(State, batch, now)
    IN o.threw =>
         /\ o.st.users = users
         /\ o.st.wallet_data = wallet_data

\* C16 amended: when a saveUsers batch fails, no write of the batch remains:
\* the store holds exactly the rows it held before the call, except that a
\* call that opened the store has swept the rows with expiresAt < now
\* first.  A batch of valid records does not fail, and all its records (the
\* last one for each address) are in the store.
C16_FailedBatchLeavesNoWrite ==
  \A batch \in Batches :
    LET o == saveUsers(State, batch, now)
        before(tbl) == IF dbInstance = "null"
                         THEN {r \in tbl : r.expires_at >= now}
                         ELSE tbl
    IN /\ o.threw =>
            /\ o.st.users = before(users)
            /\ o.st.wallet_data = before(wallet_data)
       /\ AllValid(batch) =>
            /\ ~o.threw
            /\ \A u \in LastPerAddress(batch) :
                 \E r \in o.st.users : UserDataOf(r) = u /\ r.expires_at = now + TTL_MS

\* the store was closed holding an expired row of ab and a live row of AB:
\* the batch <<ValidAb2, MissingUsername>> opens it, writes ab, fails on the
\* second record and is rolled back: the live row is there as it was, the
\* swept one is gone, nothing of the batch is stored
C16_Witness ==
  /\ dbInstance = "null"
  /\ \E r \in users : r.address = ADDR_ab /\ r.expires_at < now
  /\ \E r \in Live(users, now) : r.address = ADDR_AB
  /\ saveUsers(State, <<ValidAb2, MissingUsername>>, now).threw
  /\ saveUsers(State, <<ValidAb2, MissingUsername>>, now).st.users = Live(users, now)
  /\ ~\E r \in saveUsers(State, <<ValidAb2, MissingUsername>>, now).st.users :
        r.address = ADDR_ab

\* ---------------------------------------------------------------------- C17
\* C17: when the transaction of a saveUsers batch fails and is rolled back,
\* userCache and avatarCache hold no entry from that batch (they are as
\* they were before the call), so that afterwards isAddressAllowed and
\* getUserByAddress find an address, and isAvatarAllowed a cid, only if
\* they did before the call.
C17_AcceleratorAfterCommit ==
  \A batch \in Batches :
    LET o == saveUsers(State, batch, now)
    IN o.threw =>
         /\ o.st.userCache = userCache
         /\ o.st.avatarCache = avatarCache
         /\ \A a \in Addresses :
              /\ isAddressAllowed(o.st, a, now).ret = isAddressAllowed(State, a, now).ret
              /\ {g.ret : g \in getUserByAddress(o.st, a, now)}
                   = {g.ret : g \in getUserByAddress(State, a, now)}
         /\ \A c \in Cids :
              isAvatarAllowed(o.st, c, now).ret = isAvatarAllowed(State, c, now).ret

\* ---------------------------------------------------------------------- C18
\* C18: in every request of the avatar route, an IPFS fetch has been
\* started or awaited, or image bytes (from IPFS, from the route's image
\* cache, or the mock image) have been served, only if isAvatarAllowed(cid)
\* was called in that request and returned true; when it returned false
\* the request has ended with status 403, without bytes and without fetch.
C18_NoAvatarWithoutAllow ==
  \A id \in Requests :
    LET q == route.requests[id]
    IN /\ (q.fetchStarted \/ q.awaiting # 0 \/ q.pc \in {"fetching", "joined"}
             \/ q.body \in {"ipfs", "cache", "mock"} \/ q.status = 200)
            => q.allowed = "true"
       /\ q.allowed = "false" =>
            /\ q.pc = "done" /\ q.status = 403 /\ q.body = "json"
            /\ ~q.fetchStarted /\ q.awaiting = 0

\* one request was refused with 403 for a cid no user carries, another
\* was allowed, started the IPFS fetch and served its bytes
C18_Witness ==
  \E i, j \in Requests :
    /\ route.requests[i].allowed = "false" /\ route.requests[i].status = 403
    /\ route.requests[j].allowed = "true" /\ route.requests[j].fetchStarted
    /\ route.requests[j].body = "ipfs"

\* ---------------------------------------------------------------------- C19
\* what the read operations can do in state st at time t
ReadOutcomes(st, t) ==
  {Effect(o) : o \in getUsers(st, t)}
    \cup UNION {{Effect(o) : o \in getUserByAddress(st, a, t)} : a \in Addresses}
    \cup {Effect(isAddressAllowed(st, a, t)) : a \in Addresses}
    \cup {Effect(isAvatarAllowed(st, c, t)) : c \in Cids}
    \cup {Effect(getWalletData(st, a, t)) : a \in Addresses}

\* the keys that some read reports as present in state st at time t
PresentKeys(st, t) ==
  {<<"user", a>> : a \in {a \in Addresses :
      \/ \E o \in getUserByAddress(st, a, t) : o.ret # <<>>
      \/ isAddressAllowed(st, a, t).ret = <<TRUE>>
      \/ \E g \in getUsers(st, t) : \E u \in Items(g.ret) : SameAddress(u.address, a)}}
    \cup {<<"avatar", c>> : c \in {c \in Cids : isAvatarAllowed(st, c, t).ret = <<TRUE>>}}
    \cup {<<"wallet", a>> : a \in {a \in Addresses : getWalletData(st, a, t).ret # <<>>}}

\* the keys whose rows in the store have all expired at time t
ExpiredKeys(st, t) ==
  {<<"user", a>> : a \in {a \in Addresses :
      /\ \E r \in st.users : SameAddress(r.address, a)
      /\ \A r \in st.users : SameAddress(r.address, a) => r.expires_at <= t}}
    \cup {<<"avatar", c>> : c \in {c \in Cids :
      /\ \E r \in st.users : r.avatar_cid = c
      /\ \A r \in st.users : r.avatar_cid = c => r.expires_at <= t}}
    \cup {<<"wallet", a>> : a \in {a \in Addresses :
      /\ \E r \in st.wallet_data : SameAddress(r.address, a)
      /\ \A r \in st.wallet_data : SameAddress(r.address, a) => r.expires_at <= t}}

\* no read, sweep, close or clock advance makes an absent key present
C19_ReadsAddNothing ==
  /\ \A o \in ReadOutcomes(State, now) \cup {Effect(closeDb(State))} :
       PresentKeys(o.st, now) \subseteq PresentKeys(State, now)
  /\ dbInstance # "null" =>
       PresentKeys(cleanExpiredEntries(State, now), now) \subseteq PresentKeys(State, now)
  /\ \A d \in {1, TTL_MS} : PresentKeys(State, now + d) \subseteq PresentKeys(State, now)

\* C19: a key becomes visible to reads only through a save: no read,
\* sweep, close or clock advance makes a key that reads as absent read as
\* present, and a key whose entry has expired reads as absent (and so stays
\* absent until the next save for it).
C19_PresentOnlyBySave ==
  /\ C19_ReadsAddNothing
  /\ \A k \in ExpiredKeys(State, now) : k \notin PresentKeys(State, now)

\* ---------------------------------------------------------------------- C20
\* what the reads named by C20 return in state st at time t
ReadResults(st, t) ==
  [getUsers |-> {g.ret : g \in getUsers(st, t)},
   getUserByAddress |-> [a \in Addresses |-> {o.ret : o \in getUserByAddress(st, a, t)}],
   isAddressAllowed |-> [a \in Addresses |-> isAddressAllowed(st, a, t).ret],
   getWalletData |-> [a \in Addresses |-> getWalletData(st, a, t).ret]]

\* state st with the store as cleanExpiredEntries, run at time ts, leaves it
WithStoreSwept(st, ts) ==
  [st EXCEPT !.users = cleanExpiredEntries(st, ts).users,
             !.wallet_data = cleanExpiredEntries(st, ts).wallet_data]

\* C20: the reads do not depend on the sweep.  For every reachable state
\* and time now, getUsers, getUserByAddress, isAddressAllowed and
\* getWalletData return the same whether the store is as it is or as
\* cleanExpiredEntries (run now or a moment earlier) leaves it; and where
\* the sweep does run, in the getDb that opens a closed store, the reads
\* return the same as on the store opened without it.
C20_ReadsIgnoreSweep ==
  /\ \A ts \in (IF now > 0 THEN {now - 1, now} ELSE {now}) :
       ReadResults(WithStoreSwept(State, ts), now) = ReadResults(State, now)
  /\ dbInstance = "null" =>
       ReadResults(getDb(State, now), now)
         = ReadResults([State EXCEPT !.dbInstance = "open", !.schema = TRUE], now)

\* a closed store holds an expired users row of ab, never deleted, beside a
\* live row of AB, and an expired wallet row: the sweep of the next getDb
\* deletes the expired rows, and getUsers lists the row of AB either way
C20_Witness ==
  /\ dbInstance = "null"
  /\ \E r \in users : r.address = ADDR_ab /\ r.expires_at < now
  /\ \E r \in Live(users, now) : r.address = ADDR_AB
  /\ \E r \in wallet_data : r.expires_at < now
  /\ getDb(State, now).users = Live(users, now)
  /\ getDb(State, now).wallet_data = {}
  /\ \A g \in getUsers(State, now) : Len(g.ret) = 1 /\ g.ret[1].address = ADDR_AB

\* ---------------------------------------------------------------------- C21
\* C21: a sweep at time now deletes from every row set all rows with
\* expiresAt <= now (a row with expiresAt = now included) and no row with
\* expiresAt > now; a second sweep at the same now changes nothing.
C21_SweepDeletesExpired ==
  LET swept == cleanExpiredEntries(State, now)
  IN /\ swept.users = {r \in users : r.expires_at > now}
     /\ swept.wallet_data = {r \in wallet_data : r.expires_at > now}
     /\ cleanExpiredEntries(swept, now) = swept

\* ---------------------------------------------------------------------- C22
\* what the operations of both domains can do in state st at time t, on the
\* batches, wallets and payload of CacheSpec
CacheOutcomes(st, t) ==
  ReadOutcomes(st, t)
    \cup {Effect(saveUsers(st, b, t)) : b \in ExpiryBatches}
    \cup {Effect(saveWalletData(st, a, JsonObject(1), t)) : a \in ExpiryWallets}

\* C22: the sweep runs once, inside the getDb that opens the store, and
\* never in an operation on an open store.  An operation on a null handle
\* that returns leaves an open store without any row with expiresAt < now;
\* an operation on an open store leaves every row with expiresAt < now
\* where it is, unless it writes that row's address anew, and
\* isAddressAllowed on an open store changes nothing at all.
C22_SweepOnlyAtOpen ==
  /\ dbInstance = "null" =>
       \A o \in CacheOutcomes(State, now) :
         ~o.threw =>
           /\ o.st.dbInstance = "open"
           /\ \A r \in o.st.users \cup o.st.wallet_data : ~(r.expires_at < now)
  /\ dbInstance = "open" =>
       /\ \A o \in CacheOutcomes(State, now) :
            /\ o.st.dbInstance = "open"
            /\ \A r \in users : r.expires_at < now =>
                 \/ r \in o.st.users
                 \/ \E r2 \in o.st.users : r2.address = r.address
                                            /\ r2.expires_at = now + TTL_MS
            /\ \A r \in wallet_data : r.expires_at < now =>
                 \/ r \in o.st.wallet_data
                 \/ \E r2 \in o.st.wallet_data : r2.address = r.address
                                                  /\ r2.expires_at = now + TTL_MS
       /\ \A a \in Addresses : isAddressAllowed(State, a, now).st = State

\* an open store holds a users row and a wallet row that expired a moment
\* ago, and entries in its maps: a read leaves the rows in the store
C22_Witness ==
  /\ dbInstance = "open"
  /\ \E r \in users : r.expires_at < now
  /\ \E r \in wallet_data : r.expires_at < now
  /\ userCache # {}
  /\ \A g \in getUsers(State, now) : g.st.users = users /\ g.st.wallet_data = wallet_data
  /\ getWalletData(State, ADDR_ab, now).st.wallet_data = wallet_data

C24_StoreHitFillsAccelerator ==
  /\ \A a \in Addresses :
       LET rows == {r \in Live(users, now) : SameAddress(r.address, a)}
           filled(st) == \E x \in st.userCache : \E r \in rows :
                           x.key = ToLower(a) /\ x.expiresAt = r.expires_at
       IN ((~\E x \in userCache : x.key = ToLower(a) /\ x.expiresAt > now) /\ rows # {}) =>
            /\ \A o \in getUserByAddress(State, a, now) : filled(o.st)
            /\ filled(isAddressAllowed(State, a, now).st)
  /\ \A a \in Addresses :
       LET rows == {r \in Live(wallet_data, now) : SameAddress(r.address, a)
                                                    /\ JSONparse(r.data).ok}
       IN ((~\E x \in walletCache : x.key = ToLower(a) /\ x.expiresAt > now) /\ rows # {}) =>
            \E x \in getWalletData(State, a, now).st.walletCache : \E r \in rows :
              x.key = ToLower(a) /\ x.expiresAt = r.expires_at
  /\ \A c \in Cids :
       (c \notin avatarCache /\ \E r \in Live(users, now) : r.avatar_cid = c) =>
         c \in isAvatarAllowed(State, c, now).st.avatarCache

\* ---------------------------------------------------------------------- C25
\* C25: at most one store handle exists at any time.  getDb opens the
\* store, creates the schema and sweeps only when the handle is null; with
\* a handle that was opened successfully getDb returns the state as it is
\* (same handle, no schema, no sweep) and so every facade call leaves that
\* handle in place; closeDb closes the handle, and the next operation that
\* returns opens one fresh handle.
C25_SingleHandle ==
  /\ openHandles <= 1
  /\ (openHandles = 1) = (dbInstance # "null")
  /\ dbInstance = "null" =>
       /\ getDb(State, now).dbInstance = "open"
       /\ getDb(State, now).schema
       /\ getDb(State, now).openHandles = 1
       /\ getDb(State, now).users = {r \in users : ~(r.expires_at < now)}
  /\ dbInstance = "open" =>
       /\ getDb(State, now) = State
       /\ \A o \in FacadeOutcomes(State, now) :
            o.st.dbInstance = "open" /\ o.st.openHandles = 1
  /\ LET closed == closeDb(State).st
     IN /\ closed.dbInstance = "null"
        /\ closed.openHandles = 0
        /\ \A o \in FacadeOutcomes(closed, now) :
             o.st.dbInstance = "open" /\ o.st.openHandles = 1

\* one handle is open, the clock has moved on, and the open store holds an
\* expired row that a call of getDb leaves where it is
C25_Witness ==
  /\ dbInstance = "open"
  /\ openHandles = 1
  /\ ticks = MaxTicks
  /\ \E r \in users : r.expires_at < now
  /\ getDb(State, now).users = users

\* ---------------------------------------------------------------------- C26
\* a request with address a that has passed `await params`
RequestFor(a) ==
  [walletRoute EXCEPT !.requests[1] = [IdleWalletRequest EXCEPT !.pc = "params",
                                                                !.address = a]]

\* C26 (as stated): in the wallet route the provider fetch and
\* saveWalletData are reached only by a request whose address passed
\* isAddressAllowed in that request and for which getWalletData returned
\* absent; for an address that is not allowed the response is 403 and
\* neither the store nor the wallet entries of the accelerator change.
C26_ForbiddenChangesNothing ==
  \A a \in Addresses :
    LET o == isAddressAllowed(State, a, now)
        r == WalletGETAfterParams(State, RequestFor(a), 1, now)
    IN (walletRoute.apiKey /\ ~o.threw /\ ~o.ret[1]) =>
         /\ r.wr.requests[1].status = 403
         /\ r.st.wallet_data = wallet_data
         /\ r.st.walletCache = walletCache

\* C26 (amended): the fetch and the save are reached only after
\* isAddressAllowed returned true and getWalletData returned absent in the
\* same request; for an address that is not allowed the response is 403,
\* the request neither fetches nor saves, the wallet entries of the
\* accelerator and every wallet_data row that has not expired stay as they
\* are, and on an open store wallet_data does not change at all.
C26_FetchOnlyWhenAllowedAndAbsent ==
  /\ \A id \in Requests :
       LET q == walletRoute.requests[id]
       IN /\ (q.fetched \/ q.pc = "fetching" \/ q.saved \/ q.xCache = "MISS") =>
               (q.allowed = "true" /\ q.cached = "absent")
          /\ q.saved => q.fetched
          /\ q.allowed = "false" => (q.pc = "done" /\ q.status = 403)
  /\ \A a \in RouteAddresses :
       LET r == WalletGETAfterParams(State, RequestFor(a), 1, now)
           o == isAddressAllowed(State, a, now)
       IN walletRoute.apiKey =>
            /\ r.wr.requests[1].fetched =>
                 /\ isAddress(a) /\ ~o.threw /\ o.ret[1]
                 /\ getWalletData(o.st, a, now).ret = <<>>
            /\ (isAddress(a) /\ ~o.threw /\ ~o.ret[1]) =>
                 /\ r.wr.requests[1].status = 403
                 /\ ~r.wr.requests[1].fetched
                 /\ r.st.walletCache = walletCache
                 /\ Live(r.st.wallet_data, now) = Live(wallet_data, now)
                 /\ r.st.wallet_data \subseteq wallet_data
                 /\ dbInstance = "open" => r.st.wallet_data = wallet_data

\* one request was refused with 403 while another one, for an allowed
\* address, fetched and saved; the store holds a wallet row
C26_Witness ==
  /\ \E id \in Requests : walletRoute.requests[id].status = 403
  /\ \E id \in Requests : /\ walletRoute.requests[id].saved
                          /\ walletRoute.requests[id].xCache = "MISS"
  /\ wallet_data # {}

\* ---------------------------------------------------------------------- C27
\* C27: at any single time getUserByAddress, isAddressAllowed and getUsers
\* agree: getUserByAddress(a) returns a record exactly when
\* isAddressAllowed(a) is true, exactly when getUsers() contains a row whose
\* address equals a ignoring case, and the record getUserByAddress(a)
\* returns is one of the rows getUsers() returns.
C27_ReadsAgree ==
  \A a \in Addresses : \A o \in getUserByAddress(State, a, now) :
    \A g \in getUsers(State, now) :
      LET allowed == isAddressAllowed(State, a, now)
          listed == \E u \in Items(g.ret) : SameAddress(u.address, a)
      IN (~o.threw /\ ~g.threw /\ ~allowed.threw) =>
           /\ (o.ret # <<>>) = allowed.ret[1]
           /\ allowed.ret[1] = listed
           /\ o.ret # <<>> => o.ret[1] \in Items(g.ret)

\* ---------------------------------------------------------------------- C28
\* C28 (as stated): saveUsers changes only the rows whose address appears
\* in the batch: every users row of another address keeps its fields and
\* its expiresAt, and wallet_data and walletCache are never changed by
\* saveUsers.
C28_SaveTouchesOnlyBatchRows ==
  \A batch \in Batches :
    LET o == saveUsers(State, batch, now)
    IN /\ \A r \in users : r.address \notin BatchAddresses(batch) => r \in o.st.users
       /\ o.st.wallet_data = wallet_data
       /\ o.st.walletCache = walletCache

\* C28 (amended): saveUsers, whether it returns or throws, adds or replaces
\* only rows whose address appears in the batch.  Every users row of another
\* address that has not expired keeps its fields and its expiresAt and is
\* returned by getUsers right after the save and up to the last moment
\* before its expiry; every wallet_data row that has not expired is kept and
\* none is added; walletCache is unchanged.  On an open store no users row
\* of another address and no wallet_data row changes at all.
C28_SaveKeepsOtherLiveRows ==
  \A batch \in Batches :
    LET o == saveUsers(State, batch, now)
        others == {r \in users : r.address \notin BatchAddresses(batch)}
    IN /\ \A r \in Live(others, now) :
            /\ r \in o.st.users
            /\ \A t \in {now, r.expires_at - 1} : \A g \in getUsers(o.st, t) :
                 UserDataOf(r) \in Items(g.ret)
       /\ \A r \in o.st.users : r.address \notin BatchAddresses(batch) => r \in others
       /\ Live(o.st.wallet_data, now) = Live(wallet_data, now)
       /\ o.st.wallet_data \subseteq wallet_data
       /\ o.st.walletCache = walletCache
       /\ dbInstance = "open" =>
            /\ others \subseteq o.st.users
            /\ o.st.wallet_data = wallet_data

\* the store holds a users row of ab that has not expired and a wallet row;
\* a batch for AB alone is saved and the row of ab is still there
C28_Witness ==
  /\ \E r \in Live(users, now) : r.address = ADDR_ab
  /\ wallet_data # {}
  /\ LET o == saveUsers(State, <<ValidAB>>, now)
     IN /\ ~o.threw
        /\ \E r \in o.st.users : r.address = ADDR_AB /\ r.expires_at = now + TTL_MS
        /\ \E r \in Live(o.st.users, now) : r.address = ADDR_ab /\ r \in users

\* ---------------------------------------------------------------------- C29
\* a request in slot j that passed isAvatarAllowed(cid) and enters
\* getAvatarFromIpfs
Entering(rt, j, cid) ==
  [rt EXCEPT !.requests[j] = [IdleRequest EXCEPT !.pc = "params", !.cid = cid,
                                                 !.allowed = "true"]]

\* the slots a new request can take
FreeSlots(rt) == {j \in Requests : rt.requests[j].pc \in {"idle", "done"}}

\* C29: in the avatar route at most one IPFS fetch per cid is in progress
\* at any time.  inFlight holds exactly the fetches whose owner has not
\* resumed, one per cid; a request that finds an inFlight entry for its cid
\* awaits that promise and starts no fetch; when the owner resumes after its
\* fetch settled, on success and on failure alike, the entry for the cid is
\* gone, and after a failure the next request for the cid starts a fetch of
\* its own.
C29_OneFetchPerCid ==
  /\ \A c \in Cids :
       /\ Cardinality({id \in Requests : route.requests[id].pc = "fetching"
                                         /\ route.requests[id].cid = c}) <= 1
       /\ Cardinality({x \in route.inFlight : x.key = c}) <= 1
       /\ Cardinality({p \in Requests : route.promises[p] = "pending"
                                        /\ route.requests[p].cid = c}) <= 1
  /\ \A x \in route.inFlight :
       route.requests[x.promise].pc = "fetching" /\ route.requests[x.promise].cid = x.key
  /\ \A id \in Requests :
       LET q == route.requests[id]
       IN /\ q.pc = "fetching" => [key |-> q.cid, promise |-> id] \in route.inFlight
          /\ route.promises[id] = "pending" => q.pc = "fetching"
          /\ q.pc = "joined" => (~q.fetchStarted /\ route.requests[q.awaiting].cid = q.cid)
  /\ \A x \in route.inFlight : \A j \in FreeSlots(route) :
       LET rt == getAvatarFromIpfs(Entering(route, j, x.key), j, now)
       IN {e \in CacheGet(route.avatarCache, x.key) : NotExpired(e.expiresAt, now)} = {} =>
            /\ rt.requests[j].pc = "joined"
            /\ rt.requests[j].awaiting = x.promise
            /\ ~rt.requests[j].fetchStarted
            /\ rt.promises = route.promises
            /\ rt.inFlight = route.inFlight
  /\ \A id \in Requests :
       LET q == route.requests[id]
       IN (q.pc = "fetching" /\ route.promises[q.awaiting] # "pending") =>
            LET rt1 == OwnerResumes(route, id)
            IN /\ \A x \in rt1.inFlight : x.key # q.cid
               /\ route.promises[q.awaiting] = "rejected" =>
                    \A j \in FreeSlots(rt1) :
                      LET rt2 == getAvatarFromIpfs(Entering(rt1, j, q.cid), j, now)
                      IN /\ rt2.requests[j].pc = "fetching"
                         /\ rt2.requests[j].fetchStarted
                         /\ rt2.promises[j] = "pending"

\* a fetch of a cid failed and its request was answered 500; a later
\* request for the same cid has started a fetch of its own
C29_Witness ==
  \E i, j \in Requests :
    /\ route.requests[i].fetchStarted /\ route.requests[i].status = 500
    /\ route.promises[i] = "rejected"
    /\ route.requests[j].cid = route.requests[i].cid
    /\ route.requests[j].pc = "fetching" /\ route.promises[j] = "pending"
    /\ route.inFlight = {[key |-> route.requests[j].cid, promise |-> j]}

\* ---------------------------------------------------------------------- C30
\* C30: in the avatar route, under any interleaving of concurrent requests,
\* createHeliaHTTP and createVerifiedFetch are each invoked at most once per
\* process, and all fetches use one Helia instance and one verified-fetch
\* instance.
C30_HeliaSingleton ==
  /\ route.heliaCalls <= 1
  /\ route.verifiedFetchCalls <= 1
  /\ \A p, q \in Requests :
       (route.fetcher[p] # 0 /\ route.fetcher[q] # 0) => route.fetcher[p] = route.fetcher[q]

====
